---- MODULE Spec2Model ----
(***************************************************************************)
(* State-machine model of train.py (DnCNN image-denoising trainer).        *)
(*                                                                         *)
(* Two views of the program are modelled:                                  *)
(*   - the main training loop of main() (epochs, batches, best-model       *)
(*     selection, plateau schedule, history, artifacts, metric events);    *)
(*   - the data path Dataset -> DataLoader (key shuffle at construction,   *)
(*     per-epoch sampling order, batch assembly).                          *)
(*                                                                         *)
(* Numbers.  Losses and PSNR values are integers; the three divisions of   *)
(* the epoch summary are integer divisions.  Learning rates are counted in *)
(* units of 1e-9, so the default --lr 0.01 is 10000000.                    *)
(***************************************************************************)
EXTENDS Integers, Sequences, FiniteSets, TLC

VARIABLES
    pc,             \* position of main(): "loop", "train", "eval", "done", "aborted"
    args,           \* parsed command line: epochs, batch_size, lr
    num_train,      \* len(train_data)
    num_val,        \* len(val_data)
    epoch,          \* loop variable of `for epoch in range(args.epochs)` (0-based)
    params,         \* version of the model parameters (number of updates applied)
    optimizer,      \* optimizer state: learning rate and number of steps taken
    scheduler,      \* ReduceLROnPlateau state: best, num_bad_epochs
    best_val_loss,  \* the best-model marker
    history,        \* in-memory run history
    acc,            \* accumulators of the running epoch
    batch,          \* what clean_imgs / noisy_imgs / preds currently hold
    files,          \* artifacts under log_dir: how often written, last content
    events,         \* what the SummaryWriter received, in order
    stdout,         \* learning rates printed at the start of each epoch
    keys,           \* Dataset.keys of the training and the validation accessor
    lpc,            \* position of the data path
    lepoch,         \* epoch of the data path
    order,          \* index order the running loader iteration follows
    pos,            \* number of batches the running iteration has delivered
    delivered       \* per store and epoch, the batches delivered so far

mainvars == <<pc, args, num_train, num_val, epoch, params, optimizer, scheduler,
              best_val_loss, history, acc, batch, files, events, stdout>>
loadvars == <<keys, lpc, lepoch, order, pos, delivered>>
vars == <<pc, args, num_train, num_val, epoch, params, optimizer, scheduler,
          best_val_loss, history, acc, batch, files, events, stdout,
          keys, lpc, lepoch, order, pos, delivered>>

----------------------------------------------------------------------------
(* Bounds of the model *)

MaxEpochs == 3        \* --epochs ranges over 1..MaxEpochs in Spec
LongEpochs == 6       \* --epochs in SpecLong
SchedEpochs == 11     \* --epochs in SpecSched
TrainLen == 3         \* patches in the training store (Spec)
ShortLen == 1         \* patches in a store that fills a single batch
ValLen == 3           \* patches in the validation store (Spec, SpecLong)
BatchSize == 2        \* --batch_size

\* per-batch training losses the forward pass may produce
TrainLosses == {4, 8}
\* per-batch validation outcomes (loss, PSNR) the forward pass may produce
ValOutcomes == {[loss |-> 2, psnr |-> 30], [loss |-> 1996, psnr |-> 10]}
\* --lr values: the default 0.01 and 1e-8, in units of 1e-9
LearningRates == {10000000, 10}

----------------------------------------------------------------------------
(* Program constants *)

BestSentinel == 999       \* best_val_loss = 999
ImagePeriod == 5          \* epoch % 5
Patience == 4             \* ReduceLROnPlateau(..., patience=4)
FactorDiv == 10           \* factor=0.1 (default): new_lr = old_lr * 0.1
EpsUnits == 10            \* eps=1e-8 (default), in units of 1e-9
ThresholdDen == 10000     \* threshold=1e-4 (default), mode 'rel'
SchedInf == -1            \* scheduler.best starts at +inf (mode 'min')

NoFile == [written |-> 0, data |-> <<>>]
FileNames == {"model.npy", "best_model.pt", "best_model.npy",
              "final_model.pt", "final_model.npy"}

\* len(loader): number of batches of a store of n patches (drop_last=False)
NumBatches(n, B) == (n + B - 1) \div B

\* the history dict of line 119
EmptyHistory == [model |-> "model_params", train |-> <<>>, val |-> <<>>, psnr |-> <<>>]

\* pickle.dump / torch.save to a path: the file is (over)written
Dump(fs, name, content) ==
    [fs EXCEPT ![name] = [written |-> @.written + 1, data |-> <<content>>]]

ZeroAcc == [train_steps |-> 0, epoch_train_loss |-> 0,
            val_steps |-> 0, epoch_val_loss |-> 0, epoch_val_psnr |-> 0]

NoBatch == [phase |-> "none", epoch |-> 0, index |-> 0, params |-> 0]

----------------------------------------------------------------------------
(* ReduceLROnPlateau(optimizer, 'min', patience=4): the library's defaults *)
(* are factor=0.1, threshold=1e-4 ('rel'), cooldown=0, min_lr=0, eps=1e-8. *)

\* is_better(a, best) in mode 'min', threshold_mode 'rel': a < best * (1 - threshold)
is_better(a, best) ==
    \/ best = SchedInf
    \/ a * ThresholdDen < best * (ThresholdDen - 1)

\* _reduce_lr: new_lr = max(old_lr * factor, min_lr); applied only if the
\* change exceeds eps
reduce_lr(old_lr) ==
    LET new_lr == old_lr \div FactorDiv
    IN  IF old_lr - new_lr > EpsUnits THEN new_lr ELSE old_lr

\* a schedule that reduces as soon as `patience` bad epochs are counted
PatienceReached(num_bad_epochs) == num_bad_epochs >= Patience

\* the test that triggers a reduction
PatienceExceeded(num_bad_epochs) == num_bad_epochs > Patience

\* scheduler.step(metrics): the new scheduler state and learning rate
SchedulerStep(s, lr, metrics) ==
    LET better == is_better(metrics, s.best)
        best1 == IF better THEN metrics ELSE s.best
        bad1 == IF better THEN 0 ELSE s.num_bad_epochs + 1
    IN  IF PatienceExceeded(bad1)
        THEN [sched |-> [best |-> best1, num_bad_epochs |-> 0], lr |-> reduce_lr(lr)]
        ELSE [sched |-> [best |-> best1, num_bad_epochs |-> bad1], lr |-> lr]

----------------------------------------------------------------------------
(* The main loop of main() *)

\* a comparison that lets a tie count as a new best
IsBestOrTie(epoch_val_loss, marker) == epoch_val_loss <= marker

\* `if epoch_val_loss < best_val_loss`
IsBest(epoch_val_loss, marker) == epoch_val_loss < marker

\* a test that counts epochs from one
ImageDueFromOne(e) == (e + 1) % ImagePeriod = 0

\* `if epoch % 5 == 0`
ImageDue(e) == e % ImagePeriod = 0

\* a loop that stops after its first epoch
LoopDoneEarly(e, n) == e >= 1

\* range(args.epochs) is exhausted
LoopDone(e, n) == e >= n

\* an update that puts the new entries in front
HistoryPrepend(h, tl, vl, ps) ==
    [h EXCEPT !.train = <<tl>> \o @, !.val = <<vl>> \o @, !.psnr = <<ps>> \o @]

\* history['train'].append(..); history['val'].append(..); history['psnr'].append(..)
HistoryAppend(h, tl, vl, ps) ==
    [h EXCEPT !.train = Append(@, tl), !.val = Append(@, vl), !.psnr = Append(@, ps)]

\* saves that also rewrite model.npy in every epoch
SaveBestAndHistory(isbest, fs, p, h) ==
    IF isbest
    THEN Dump(Dump(Dump(fs, "best_model.pt", p), "best_model.npy", h), "model.npy", h)
    ELSE Dump(fs, "model.npy", h)

\* lines 196-200, the two saves: on a new best, torch.save(model) to best_model.pt
\* and pickle.dump(history) to best_model.npy; nothing is written otherwise
SaveBest(isbest, fs, p, h) ==
    IF isbest
    THEN Dump(Dump(fs, "best_model.pt", p), "best_model.npy", h)
    ELSE fs

\* what one training iteration does to the parameters (optimizer.step())
TrainUpdate(p) == p + 1

\* a validation iteration that takes an optimizer step
EvalUpdateStepping(p) == p + 1

\* what one validation iteration does to the parameters (torch.no_grad(), no step)
EvalUpdate(p) == p

\* state after lines 56-127, for the given command line and store sizes
MainInit(epochsSet, nTrain, nVal, lrSet) ==
    /\ pc = "loop"
    /\ args \in [epochs : epochsSet, batch_size : {BatchSize}, lr : lrSet]
    /\ num_train = nTrain
    /\ num_val = nVal
    /\ epoch = 0
    /\ params = 0
    /\ optimizer = [lr |-> args.lr, steps |-> 0]
    /\ scheduler = [best |-> SchedInf, num_bad_epochs |-> 0]
    /\ best_val_loss = BestSentinel
    /\ history = EmptyHistory
    /\ acc = ZeroAcc
    /\ batch = NoBatch
    /\ files = Dump([f \in FileNames |-> NoFile], "model.npy", EmptyHistory)
    /\ events = <<>>
    /\ stdout = <<>>

\* lines 128-133: the loop takes its next epoch
StartEpoch ==
    /\ pc = "loop"
    /\ ~LoopDone(epoch, args.epochs)
    /\ pc' = "train"
    /\ stdout' = Append(stdout, optimizer.lr)
    /\ acc' = ZeroAcc
    /\ UNCHANGED <<args, num_train, num_val, epoch, params, optimizer, scheduler,
                   best_val_loss, history, batch, files, events>>

\* lines 135-158: one iteration of the training loop, whose loss is l
TrainBatch(l) ==
    /\ pc = "train"
    /\ acc.train_steps < NumBatches(num_train, args.batch_size)
    /\ batch' = [phase |-> "train", epoch |-> epoch, index |-> acc.train_steps,
                 params |-> params]
    /\ params' = TrainUpdate(params)
    /\ optimizer' = [optimizer EXCEPT !.steps = @ + 1]
    /\ acc' = [acc EXCEPT !.epoch_train_loss = @ + l, !.train_steps = @ + 1]
    /\ UNCHANGED <<pc, args, num_train, num_val, epoch, scheduler, best_val_loss,
                   history, files, events, stdout>>

\* lines 160-166: the training loader is exhausted, evaluation starts
StartEval ==
    /\ pc = "train"
    /\ acc.train_steps = NumBatches(num_train, args.batch_size)
    /\ pc' = "eval"
    /\ acc' = [acc EXCEPT !.epoch_val_loss = 0, !.epoch_val_psnr = 0, !.val_steps = 0]
    /\ UNCHANGED <<args, num_train, num_val, epoch, params, optimizer, scheduler,
                   best_val_loss, history, batch, files, events, stdout>>

\* lines 167-188: one iteration of the validation loop, whose outcome is o
EvalBatch(o) ==
    /\ pc = "eval"
    /\ acc.val_steps < NumBatches(num_val, args.batch_size)
    /\ batch' = [phase |-> "val", epoch |-> epoch, index |-> acc.val_steps,
                 params |-> params]
    /\ params' = EvalUpdate(params)
    /\ acc' = [acc EXCEPT !.epoch_val_loss = @ + o.loss, !.epoch_val_psnr = @ + o.psnr,
                          !.val_steps = @ + 1]
    /\ UNCHANGED <<pc, args, num_train, num_val, epoch, optimizer, scheduler,
                   best_val_loss, history, files, events, stdout>>

\* the three add_image calls of lines 218-224
ImageEvents(b, e) ==
    << [tag |-> "clean images", value |-> b, step |-> e],
       [tag |-> "noisy images", value |-> b, step |-> e],
       [tag |-> "denoised images", value |-> b, step |-> e] >>

\* lines 190-224: the validation loader is exhausted; epoch summary
EpochSummary ==
    /\ pc = "eval"
    /\ acc.val_steps = NumBatches(num_val, args.batch_size)
    /\ LET epoch_train_loss == acc.epoch_train_loss \div acc.train_steps
           epoch_val_loss == acc.epoch_val_loss \div acc.val_steps
           epoch_val_psnr == acc.epoch_val_psnr \div acc.val_steps
           best == IsBest(epoch_val_loss, best_val_loss)
           stepped == SchedulerStep(scheduler, optimizer.lr, epoch_val_loss)
           scalars == << [tag |-> "loss", value |-> epoch_train_loss, step |-> epoch],
                         [tag |-> "val", value |-> epoch_val_loss, step |-> epoch],
                         [tag |-> "PSNR", value |-> epoch_val_psnr, step |-> epoch] >>
       IN  /\ best_val_loss' = IF best THEN epoch_val_loss ELSE best_val_loss
           /\ files' = SaveBest(best, files, params, history)
           /\ scheduler' = stepped.sched
           /\ optimizer' = [optimizer EXCEPT !.lr = stepped.lr]
           /\ history' = HistoryAppend(history, epoch_train_loss, epoch_val_loss,
                                       epoch_val_psnr)
           /\ events' = events \o scalars \o
                        (IF ImageDue(epoch) THEN ImageEvents(batch, epoch) ELSE <<>>)
           /\ acc' = [acc EXCEPT !.epoch_train_loss = epoch_train_loss,
                                 !.epoch_val_loss = epoch_val_loss,
                                 !.epoch_val_psnr = epoch_val_psnr]
    /\ epoch' = epoch + 1
    /\ pc' = "loop"
    /\ UNCHANGED <<args, num_train, num_val, params, batch, stdout>>

\* lines 226-231: the loop is over; final artifacts
SaveFinal ==
    /\ pc = "loop"
    /\ LoopDone(epoch, args.epochs)
    /\ files' = Dump(Dump(files, "final_model.pt", params), "final_model.npy", history)
    /\ pc' = "done"
    /\ UNCHANGED <<args, num_train, num_val, epoch, params, optimizer, scheduler,
                   best_val_loss, history, acc, batch, events, stdout>>

\* an unhandled failure while a batch is loaded or processed ends the run
Abort ==
    /\ pc \in {"train", "eval"}
    /\ pc' = "aborted"
    /\ UNCHANGED <<args, num_train, num_val, epoch, params, optimizer, scheduler,
                   best_val_loss, history, acc, batch, files, events, stdout>>

\* the data path at rest
LoadIdle ==
    /\ keys = [train |-> <<>>, val |-> <<>>]
    /\ lpc = "idle"
    /\ lepoch = 0
    /\ order = <<>>
    /\ pos = 0
    /\ delivered = [train |-> <<>>, val |-> <<>>]

----------------------------------------------------------------------------
(* The data path: Dataset (lines 19-33) and the two DataLoaders (92-93) *)

LoaderEpochs == 2     \* epochs the data path is followed for

\* all orderings of the elements of set S
Perms(S) ==
    {f \in [1..Cardinality(S) -> S] : \A i, j \in 1..Cardinality(S) : f[i] = f[j] => i = j}

\* list(data.keys()): the store's keys, in the store's own order
StoreKeys(n) == [i \in 1..n |-> i]

\* np.random.shuffle(self.keys): any ordering of the store's keys
ShuffledKeys(n) == Perms(1..n)

\* a sampler that walks the indices backwards
ReversedOrder(n) == [i \in 1..n |-> n - i]

\* SequentialSampler (shuffle=False): indices 0, 1, .., n-1
SequentialOrder(n) == [i \in 1..n |-> i - 1]

\* RandomSampler (shuffle=True): a fresh permutation of the indices per iteration
RandomOrders(n) == Perms(0..(n - 1))

\* positions of the sampler's order that make up batch j (0-based), the last
\* batch holding what is left (drop_last=False)
BatchPositions(j, n, B) ==
    LET lo == j * B + 1
        hi == IF j * B + B < n THEN j * B + B ELSE n
    IN  lo..hi

\* Dataset.__getitem__(index): the patch stored under self.keys[index]
GetItem(ks, index) == ks[index + 1]

\* the batch the loader assembles from the sampler's order `ord`
Collate(ks, ord, j, B) ==
    LET P == BatchPositions(j, Len(ord), B)
        lo == j * B
    IN  [i \in 1..Cardinality(P) |-> GetItem(ks, ord[lo + i])]

LoadInit ==
    /\ MainInit({1}, TrainLen, ValLen, {10000000})
    /\ LoadIdle

\* lines 85-86: both accessors are constructed, each shuffling its keys
LoadDatasets ==
    /\ lpc = "idle"
    /\ keys' \in [train : ShuffledKeys(num_train), val : ShuffledKeys(num_val)]
    /\ lpc' = "loop"
    /\ UNCHANGED <<lepoch, order, pos, delivered>>

\* line 135: iteration over train_loader starts (shuffle=True)
TrainIter ==
    /\ lpc = "loop"
    /\ lepoch < LoaderEpochs
    /\ order' \in RandomOrders(num_train)
    /\ pos' = 0
    /\ delivered' = [train |-> <<>>, val |-> <<>>]
    /\ lpc' = "train"
    /\ UNCHANGED <<keys, lepoch>>

\* line 135: train_loader yields its next batch
TrainNext ==
    /\ lpc = "train"
    /\ pos < NumBatches(num_train, args.batch_size)
    /\ delivered' = [delivered EXCEPT
                       !.train = Append(@, Collate(keys.train, order, pos, args.batch_size))]
    /\ pos' = pos + 1
    /\ UNCHANGED <<keys, lpc, lepoch, order>>

\* line 167: iteration over val_loader starts (shuffle=False)
ValIter ==
    /\ lpc = "train"
    /\ pos = NumBatches(num_train, args.batch_size)
    /\ order' = SequentialOrder(num_val)
    /\ pos' = 0
    /\ lpc' = "val"
    /\ UNCHANGED <<keys, lepoch, delivered>>

\* line 167: val_loader yields its next batch
ValNext ==
    /\ lpc = "val"
    /\ pos < NumBatches(num_val, args.batch_size)
    /\ delivered' = [delivered EXCEPT
                       !.val = Append(@, Collate(keys.val, order, pos, args.batch_size))]
    /\ pos' = pos + 1
    /\ UNCHANGED <<keys, lpc, lepoch, order>>

\* line 128: val_loader is exhausted, the loop moves to the next epoch
LoaderEpochEnd ==
    /\ lpc = "val"
    /\ pos = NumBatches(num_val, args.batch_size)
    /\ lepoch' = lepoch + 1
    /\ lpc' = "loop"
    /\ UNCHANGED <<keys, order, pos, delivered>>

LoadNext ==
    \/ LoadDatasets /\ UNCHANGED mainvars
    \/ TrainIter /\ UNCHANGED mainvars
    \/ TrainNext /\ UNCHANGED mainvars
    \/ ValIter /\ UNCHANGED mainvars
    \/ ValNext /\ UNCHANGED mainvars
    \/ LoaderEpochEnd /\ UNCHANGED mainvars

\* the data path of a run, followed for LoaderEpochs epochs
SpecLoader == LoadInit /\ [][LoadNext]_vars

----------------------------------------------------------------------------
(* Specifications of the main loop *)

\* --lr 0.01, the default, in units of 1e-9
DefaultLr == {10000000}

\* runs of up to MaxEpochs epochs, two training and two validation batches each
Init ==
    /\ MainInit(1..MaxEpochs, TrainLen, ValLen, DefaultLr)
    /\ LoadIdle

Next ==
    \/ StartEpoch /\ UNCHANGED loadvars
    \/ (\E l \in TrainLosses : TrainBatch(l)) /\ UNCHANGED loadvars
    \/ StartEval /\ UNCHANGED loadvars
    \/ (\E o \in ValOutcomes : EvalBatch(o)) /\ UNCHANGED loadvars
    \/ EpochSummary /\ UNCHANGED loadvars
    \/ SaveFinal /\ UNCHANGED loadvars
    \/ Abort /\ UNCHANGED loadvars

Spec == Init /\ [][Next]_vars

\* runs of LongEpochs epochs, one training and two validation batches each
InitLong ==
    /\ MainInit({LongEpochs}, ShortLen, ValLen, DefaultLr)
    /\ LoadIdle

SpecLong == InitLong /\ [][Next]_vars

\* runs of SchedEpochs epochs, one training and one validation batch each, the
\* training loss (which the schedule never reads) held at one value
InitSched ==
    /\ MainInit({SchedEpochs}, ShortLen, ShortLen, LearningRates)
    /\ LoadIdle

SchedTrainLosses == {4}

NextSched ==
    \/ StartEpoch /\ UNCHANGED loadvars
    \/ (\E l \in SchedTrainLosses : TrainBatch(l)) /\ UNCHANGED loadvars
    \/ StartEval /\ UNCHANGED loadvars
    \/ (\E o \in ValOutcomes : EvalBatch(o)) /\ UNCHANGED loadvars
    \/ EpochSummary /\ UNCHANGED loadvars
    \/ SaveFinal /\ UNCHANGED loadvars
    \/ Abort /\ UNCHANGED loadvars

SpecSched == InitSched /\ [][NextSched]_vars

----------------------------------------------------------------------------
(* Properties *)

\* the step that ends an epoch
SummaryStep == pc = "eval" /\ pc' = "loop"

\* the validation loss of the epoch a SummaryStep ends
NewVal == history'.val[Len(history'.val)]

IsPrefix(s, t) == Len(s) <= Len(t) /\ \A i \in 1..Len(s) : s[i] = t[i]

MinOf(s) == CHOOSE x \in {s[i] : i \in 1..Len(s)} : \A i \in 1..Len(s) : x <= s[i]

TrainBatches == NumBatches(num_train, args.batch_size)
ValBatches == NumBatches(num_val, args.batch_size)

HistoryFiles == {"model.npy", "best_model.npy", "final_model.npy"}

\* the histories that are on durable storage
Persisted == {files[f].data[1] : f \in {g \in HistoryFiles : files[g].written > 0}}

HasEntries(h, k) == Len(h.train) = k /\ Len(h.val) = k /\ Len(h.psnr) = k

(* C1, as claimed: once epoch k is over (the next epoch runs, or the run is *)
(* done), some persisted history artifact holds exactly k entries per      *)
(* sequence.                                                               *)
C1_PersistedEveryEpoch ==
    (epoch >= 1 /\ pc \in {"train", "eval", "done"})
        => \E h \in Persisted : HasEntries(h, epoch)

(* C1, amended: the history is persisted only before the first epoch       *)
(* (model.npy, empty, never rewritten), in an epoch that sets a new best   *)
(* (best_model.npy, a prefix of the history) and after the last epoch      *)
(* (final_model.npy, all N entries); an epoch that sets no new best writes *)
(* no file at all.                                                         *)
C1_PersistedOnBestAndFinal ==
    /\ [](/\ files["model.npy"] = [written |-> 1, data |-> <<EmptyHistory>>]
          /\ \A h \in Persisted : /\ IsPrefix(h.train, history.train)
                                  /\ IsPrefix(h.val, history.val)
                                  /\ IsPrefix(h.psnr, history.psnr)
          /\ pc # "done" => files["final_model.npy"].written = 0
          /\ pc = "done" => /\ files["final_model.npy"] = [written |-> 1, data |-> <<history>>]
                            /\ HasEntries(history, args.epochs))
    /\ [][SummaryStep =>
            IF NewVal < best_val_loss
            THEN /\ files'["best_model.npy"].written = files["best_model.npy"].written + 1
                 /\ \A f \in HistoryFiles \ {"best_model.npy"} : files'[f] = files[f]
            ELSE files' = files]_vars

\* a second epoch that set no new best is over, and the only epoch-time
\* history on storage is the empty one the first epoch wrote
C1_Witness ==
    /\ pc = "train"
    /\ epoch = 2
    /\ files["best_model.npy"].written = 1
    /\ HasEntries(files["best_model.npy"].data[1], 0)
    /\ \A h \in Persisted : HasEntries(h, 0)

(* C2: the marker never increases and changes only in the step that ends   *)
(* an epoch; that step overwrites best_model.pt (with the current model)   *)
(* and lowers the marker to the epoch's validation loss iff that loss is   *)
(* strictly below the marker; on a tie, and in every other step, marker    *)
(* and best checkpoint stay as they are.                                   *)
C2_BestModelRule ==
    [][/\ best_val_loss' <= best_val_loss
       /\ SummaryStep =>
            /\ (files'["best_model.pt"].written = files["best_model.pt"].written + 1)
                   <=> (NewVal < best_val_loss)
            /\ NewVal < best_val_loss =>
                   /\ best_val_loss' = NewVal
                   /\ files'["best_model.pt"].data = <<params>>
            /\ ~(NewVal < best_val_loss) =>
                   /\ best_val_loss' = best_val_loss
                   /\ files'["best_model.pt"] = files["best_model.pt"]
       /\ ~SummaryStep =>
            /\ best_val_loss' = best_val_loss
            /\ files'["best_model.pt"] = files["best_model.pt"]]_vars

\* the first epoch set the best, a later epoch tied with it and saved nothing
C2_Witness ==
    /\ pc = "loop"
    /\ epoch >= 2
    /\ history.val[1] = best_val_loss
    /\ history.val[epoch] = best_val_loss
    /\ files["best_model.pt"].written = 1

(* C3, as claimed: after every completed epoch the marker equals the       *)
(* minimum of the validation losses so far and a best checkpoint exists,   *)
(* whatever the losses are.                                                *)
C3_MarkerIsMinimum ==
    epoch >= 1 =>
        /\ best_val_loss = MinOf(history.val)
        /\ files["best_model.pt"].written >= 1

(* C4: the three history sequences always have the length `epoch` (the     *)
(* number of completed epochs), N at the end of the run; entry k is the    *)
(* value reported for epoch index k-1; every step keeps the earlier        *)
(* entries and the model field, and adds at most one entry.                *)
C4_HistoryAppendOnly ==
    /\ [](/\ HasEntries(history, epoch)
          /\ pc = "done" => HasEntries(history, args.epochs)
          /\ \A k \in 1..Len(history.train) :
                \E i \in 1..(Len(events) - 2) :
                    /\ events[i] = [tag |-> "loss", value |-> history.train[k], step |-> k - 1]
                    /\ events[i + 1] = [tag |-> "val", value |-> history.val[k], step |-> k - 1]
                    /\ events[i + 2] = [tag |-> "PSNR", value |-> history.psnr[k], step |-> k - 1])
    /\ [][/\ IsPrefix(history.train, history'.train)
          /\ IsPrefix(history.val, history'.val)
          /\ IsPrefix(history.psnr, history'.psnr)
          /\ history'.model = history.model
          /\ Len(history'.train) = Len(history.train) + (IF SummaryStep THEN 1 ELSE 0)]_vars

\* a full run whose epochs differ in training and in validation loss
C4_Witness ==
    /\ pc = "done"
    /\ epoch = MaxEpochs
    /\ history.train[1] # history.train[2]
    /\ history.val[1] # history.val[2]

(* C7: final_model.pt and final_model.npy are written at most once, both   *)
(* exactly when the run is done, which is after all N epochs; they hold    *)
(* the model after N epochs of training and a history of N entries; an     *)
(* aborted run has neither.                                                *)
C7_FinalOnce ==
    LET fp == files["final_model.pt"]
        fh == files["final_model.npy"]
    IN  /\ fp.written = (IF pc = "done" THEN 1 ELSE 0)
        /\ fh.written = (IF pc = "done" THEN 1 ELSE 0)
        /\ pc = "done" =>
              /\ epoch = args.epochs
              /\ fp.data = <<args.epochs * TrainBatches>>
              /\ HasEntries(fh.data[1], args.epochs)
              /\ fh.data[1] = history
        /\ pc = "aborted" => epoch < args.epochs

\* a finished run whose last epoch was not the best one
C7_Witness ==
    /\ pc = "done"
    /\ args.epochs = MaxEpochs
    /\ history.val[epoch] > best_val_loss
    /\ files["final_model.pt"].written = 1

(* C9: the parameters change only in a training iteration, by exactly one  *)
(* optimizer step per batch; the forward pass of batch j of an epoch sees  *)
(* the parameters after the j steps before it; the validation loop leaves  *)
(* parameters and optimizer state as they are.                             *)
C9_ParamsFrame ==
    /\ [](/\ params = optimizer.steps
          /\ pc = "train" => params = epoch * TrainBatches + acc.train_steps
          /\ pc = "eval" => params = (epoch + 1) * TrainBatches
          /\ batch.phase = "train" =>
                batch.params = batch.epoch * TrainBatches + batch.index
          /\ batch.phase = "val" => batch.params = (batch.epoch + 1) * TrainBatches)
    /\ [][/\ params' # params =>
                /\ pc = "train" /\ pc' = "train"
                /\ acc'.train_steps = acc.train_steps + 1
                /\ params' = params + 1
          /\ (pc = "train" /\ acc'.train_steps = acc.train_steps + 1) =>
                params' = params + 1
          /\ pc = "eval" => params' = params
          /\ (pc = "eval" /\ ~SummaryStep) => optimizer' = optimizer]_vars

\* the second epoch's validation loop has run over all its batches
C9_Witness ==
    /\ pc = "eval"
    /\ epoch = 1
    /\ acc.val_steps = ValBatches
    /\ ValBatches >= 2
    /\ params = 2 * TrainBatches

(* C10, as claimed: a best-history snapshot holds the entries of epochs    *)
(* 1..k, k being the epoch whose model best_model.pt holds, and its last   *)
(* validation loss is the marker.                                          *)
C10_BestSnapshotCurrent ==
    files["best_model.npy"].written > 0 =>
        LET h == files["best_model.npy"].data[1]
            k == files["best_model.pt"].data[1] \div TrainBatches
        IN  /\ HasEntries(h, k)
            /\ h.val[k] = best_val_loss

----------------------------------------------------------------------------
(* Metric events (SpecLong) *)

ScalarEvents(k) ==
    << [tag |-> "loss", value |-> history.train[k], step |-> k - 1],
       [tag |-> "val", value |-> history.val[k], step |-> k - 1],
       [tag |-> "PSNR", value |-> history.psnr[k], step |-> k - 1] >>

\* the last validation batch of epoch k (1-based), predicted by that epoch's model
LastValBatch(k) ==
    [phase |-> "val", epoch |-> k - 1, index |-> ValBatches - 1, params |-> k * TrainBatches]

SampleEvents(k) ==
    << [tag |-> "clean images", value |-> LastValBatch(k), step |-> k - 1],
       [tag |-> "noisy images", value |-> LastValBatch(k), step |-> k - 1],
       [tag |-> "denoised images", value |-> LastValBatch(k), step |-> k - 1] >>

RECURSIVE ClaimedEvents(_)
ClaimedEvents(k) ==
    IF k = 0 THEN <<>>
    ELSE ClaimedEvents(k - 1) \o ScalarEvents(k) \o
         (IF k % ImagePeriod = 0 THEN SampleEvents(k) ELSE <<>>)

RECURSIVE ActualEvents(_)
ActualEvents(k) ==
    IF k = 0 THEN <<>>
    ELSE ActualEvents(k - 1) \o ScalarEvents(k) \o
         (IF (k - 1) % ImagePeriod = 0 THEN SampleEvents(k) ELSE <<>>)

(* C8, as claimed: with epochs numbered from 1, every epoch emits its loss, *)
(* val and PSNR scalars, and the visual sample follows exactly in epochs    *)
(* 5, 10, 15, ...                                                           *)
C8_SampleEveryFifth == events = ClaimedEvents(epoch)

(* C8, amended: every epoch emits its loss, val and PSNR scalars once, in   *)
(* epoch order, keyed by the 0-based epoch index; the visual sample, built  *)
(* from the last validation batch of the same epoch, follows exactly in the *)
(* epochs whose 0-based index is a multiple of 5: epochs 1, 6, 11, ...      *)
C8_SampleFromFirst == events = ActualEvents(epoch)

\* a run of six epochs: samples after the first and the sixth epoch only
C8_Witness ==
    /\ pc = "done"
    /\ epoch = 6
    /\ Len(events) = 24
    /\ events[4].tag = "clean images" /\ events[4].step = 0
    /\ events[24].tag = "denoised images" /\ events[24].step = 5
    /\ events[24].value.index = 1

----------------------------------------------------------------------------
(* The plateau schedule (SpecSched) *)

\* the learning rate epoch k (1-based) started with, as printed
LrBefore(k) == stdout[k]

\* the learning rate in force after epoch k
LrAfter(k) == IF k + 1 <= Len(stdout) THEN stdout[k + 1] ELSE optimizer.lr

\* the lowest validation loss of epochs 1..k
RECURSIVE LowestVal(_)
LowestVal(k) ==
    IF k = 1 THEN history.val[1]
    ELSE LET low == LowestVal(k - 1)
         IN  IF history.val[k] < low THEN history.val[k] ELSE low

\* epoch k did not improve on the lowest loss before it
NoGain(k) == k > 1 /\ ~(history.val[k] < LowestVal(k - 1))

\* as claimed: a reduction after `patience` consecutive epochs without gain
RECURSIVE ClaimedReduction(_)
ClaimedReduction(k) ==
    /\ k - Patience >= 1
    /\ \A j \in (k - Patience + 1)..k : NoGain(j)
    /\ \A j \in (k - Patience + 1)..(k - 1) : ~ClaimedReduction(j)

(* C6, as claimed (for a run started at the default rate): the learning   *)
(* rate is multiplied by the factor exactly after an epoch that completes  *)
(* `patience` (4) consecutive epochs without improvement, counted anew     *)
(* after a reduction.                                                      *)
C6_ReducedAtPatience ==
    args.lr \in DefaultLr =>
        \A k \in 1..epoch :
            LrAfter(k) = IF ClaimedReduction(k) THEN LrBefore(k) \div FactorDiv
                         ELSE LrBefore(k)

\* the schedule's best-seen value after k epochs: a loss replaces it only if
\* it is lower by more than the relative threshold
RECURSIVE SeenBest(_)
SeenBest(k) ==
    IF k = 1 THEN history.val[1]
    ELSE LET best == SeenBest(k - 1)
         IN  IF history.val[k] * ThresholdDen < best * (ThresholdDen - 1)
             THEN history.val[k]
             ELSE best

\* epoch k did not improve on the schedule's best-seen value
BadEpoch(k) ==
    k > 1 /\ ~(history.val[k] * ThresholdDen < SeenBest(k - 1) * (ThresholdDen - 1))

\* a reduction after more than `patience` consecutive bad epochs
RECURSIVE Reduction(_)
Reduction(k) ==
    /\ k - Patience > 1
    /\ \A j \in (k - Patience)..k : BadEpoch(j)
    /\ \A j \in (k - Patience)..(k - 1) : ~Reduction(j)

\* the rate a reduction leaves: a tenth, unless that changes it by 1e-8 or less
LoweredRate(r) == IF r - (r \div FactorDiv) > EpsUnits THEN r \div FactorDiv ELSE r

(* C6, amended: the schedule sees each epoch's validation loss once; the    *)
(* learning rate is lowered exactly after an epoch that completes more than *)
(* `patience` (that is, 5) consecutive epochs without improvement on the    *)
(* schedule's best-seen value, counted anew after a reduction; lowering     *)
(* multiplies the rate by 0.1 unless that would change it by no more than   *)
(* 1e-8; the rate never increases.                                          *)
C6_ReducedAfterPatience ==
    /\ \A k \in 1..epoch :
          /\ LrAfter(k) = IF Reduction(k) THEN LoweredRate(LrBefore(k)) ELSE LrBefore(k)
          /\ LrAfter(k) <= LrBefore(k)
    /\ epoch >= 1 => scheduler.best = SeenBest(epoch)
    /\ scheduler.num_bad_epochs <= Patience

\* a run from 0.01 that was reduced twice: after epochs 6 and 11
C6_Witness ==
    /\ pc = "done"
    /\ args.lr = 10000000
    /\ optimizer.lr = 100000
    /\ stdout[6] = 10000000
    /\ stdout[7] = 1000000

----------------------------------------------------------------------------
(* Batch order (SpecLoader) *)

\* the keys at indices j*B .. j*B+B-1 of an accessor (as far as they exist)
KeySlice(ks, j, B) ==
    [i \in 1..Cardinality(BatchPositions(j, Len(ks), B)) |-> ks[j * B + i]]

FollowsKeys(store) ==
    \A j \in 1..Len(delivered[store]) :
        delivered[store][j] = KeySlice(keys[store], j - 1, args.batch_size)

(* C5, as claimed: in every epoch and for both stores, batch j holds the   *)
(* patches at indices j*B .. j*B+B-1 of the accessor's key ordering.       *)
C5_BatchesFollowKeys == FollowsKeys("train") /\ FollowsKeys("val")

(* C5, amended: in every epoch the validation batches follow the           *)
(* accessor's key ordering (batch j holds indices j*B .. j*B+B-1, the last *)
(* batch what is left); the training batches follow a permutation drawn    *)
(* anew for each epoch: every epoch delivers each training patch exactly   *)
(* once, in batches of B (the last one what is left).                      *)
C5_ValFollowsKeys ==
    /\ FollowsKeys("val")
    /\ \A j \in 1..Len(delivered.train) :
          /\ Len(delivered.train[j]) =
                Cardinality(BatchPositions(j - 1, num_train, args.batch_size))
          /\ \A i \in 1..Len(delivered.train[j]) :
                /\ delivered.train[j][i] \in 1..num_train
                /\ \A j2 \in 1..Len(delivered.train) :
                     \A i2 \in 1..Len(delivered.train[j2]) :
                        delivered.train[j][i] = delivered.train[j2][i2]
                            => (j = j2 /\ i = i2)
    /\ lpc = "val" => Len(delivered.train) = TrainBatches
    /\ (lpc = "val" /\ pos = ValBatches) => Len(delivered.val) = ValBatches

\* the second epoch is through both loaders; its first training batch is not
\* the first slice of the training keys, the validation keys are shuffled
C5_Witness ==
    /\ lpc = "val"
    /\ lepoch = 1
    /\ pos = ValBatches
    /\ Len(delivered.val) = 2
    /\ keys.val # StoreKeys(num_val)
    /\ delivered.train[1] # KeySlice(keys.train, 0, args.batch_size)

====
